---- MODULE Spec2Model ----
(***************************************************************************)
(* Model of go-webdl/jsonrpc: the Server (method registry and HTTP        *)
(* dispatcher, jsonrpc_server.go) and the Client (Call and the default     *)
(* identifier store, jsonrpc_client.go).                                   *)
(*                                                                         *)
(* Goroutines are modelled as threads whose steps are the accesses to      *)
(* shared state (the mutex, the method table) and the calls made on the    *)
(* collaborators (codec, handler, transport); purely local computation is  *)
(* folded into the step that precedes it.                                  *)
(***************************************************************************)
EXTENDS Integers, Sequences, FiniteSets, TLC

\* ------------------------------------------------------------------ bounds

\* Number of goroutines that call Register / ServeHTTP on the one Server.
NumThreads == 2

Threads == 1..NumThreads

\* Method names a caller may pass to Register or put into a request.
Names == {"Echo", "Boom"}

\* ------------------------------------------------- reflection: types

\* reflect.Kind values that occur.
KindPtr == "Ptr"
KindFunc == "Func"

\* Identifiers are sequences of code points, so that isExported can look at
\* the first rune as the code does.
NameRequest == <<82, 101, 113, 117, 101, 115, 116>>   \* "Request"
NameArgs == <<65, 114, 103, 115>>                     \* "Args"
NameReply == <<82, 101, 112, 108, 121>>               \* "Reply"
NameArgsLower == <<97, 114, 103, 115>>                \* "args"
NameInt == <<105, 110, 116>>                          \* "int"
NameError == <<101, 114, 114, 111, 114>>              \* "error"
NameMyErr == <<77, 121, 69, 114, 114>>                \* "MyErr"

\* The types that occur as parameter or result types of handlers: for each
\* what reflect.Type reports (Kind, Name, PkgPath, Elem as an index into
\* this table, 0 where Elem does not apply).
TypeTable ==
  << [kind |-> "Struct",    name |-> NameRequest,   pkgPath |-> "net/http", elem |-> 0],  \* 1  http.Request
     [kind |-> KindPtr,     name |-> << >>,         pkgPath |-> "",         elem |-> 1],  \* 2  *http.Request
     [kind |-> "Struct",    name |-> NameArgs,      pkgPath |-> "app",      elem |-> 0],  \* 3  app.Args
     [kind |-> KindPtr,     name |-> << >>,         pkgPath |-> "",         elem |-> 3],  \* 4  *app.Args
     [kind |-> "Struct",    name |-> NameReply,     pkgPath |-> "app",      elem |-> 0],  \* 5  app.Reply
     [kind |-> KindPtr,     name |-> << >>,         pkgPath |-> "",         elem |-> 5],  \* 6  *app.Reply
     [kind |-> "Struct",    name |-> NameArgsLower, pkgPath |-> "app",      elem |-> 0],  \* 7  app.args
     [kind |-> KindPtr,     name |-> << >>,         pkgPath |-> "",         elem |-> 7],  \* 8  *app.args
     [kind |-> "Int",       name |-> NameInt,       pkgPath |-> "",         elem |-> 0],  \* 9  int
     [kind |-> KindPtr,     name |-> << >>,         pkgPath |-> "",         elem |-> 9],  \* 10 *int
     [kind |-> "Interface", name |-> NameError,     pkgPath |-> "",         elem |-> 0],  \* 11 error
     [kind |-> "Struct",    name |-> NameMyErr,     pkgPath |-> "app",      elem |-> 0],  \* 12 app.MyErr
     [kind |-> "Struct",    name |-> NameRequest,   pkgPath |-> "app",      elem |-> 0],  \* 13 app.Request
     [kind |-> KindPtr,     name |-> << >>,         pkgPath |-> "",         elem |-> 13], \* 14 *app.Request
     [kind |-> KindPtr,     name |-> << >>,         pkgPath |-> "",         elem |-> 8],  \* 15 **app.args
     [kind |-> "Struct",    name |-> << >>,         pkgPath |-> "",         elem |-> 0],  \* 16 struct{...}
     [kind |-> KindPtr,     name |-> << >>,         pkgPath |-> "",         elem |-> 16]  \* 17 *struct{...}
  >>

TypeIds == 1..Len(TypeTable)

\* reflect.TypeOf((*error)(nil)).Elem() and reflect.TypeOf((*http.Request)(nil)).Elem()
typeOfError == CHOOSE i \in TypeIds :
                 TypeTable[i].kind = "Interface" /\ TypeTable[i].name = NameError
typeOfRequest == CHOOSE i \in TypeIds :
                   TypeTable[i].name = NameRequest /\ TypeTable[i].pkgPath = "net/http"

\* unicode.IsUpper on the runes that occur (ASCII letters).
IsUpper(r) == r >= 65 /\ r <= 90

\* utf8.RuneError, what DecodeRuneInString returns for the empty string.
RuneError == 65533

\* isExported: the first rune of the name is upper case.
isExported(name) ==
  LET rune == IF Len(name) = 0 THEN RuneError ELSE name[1]
  IN  IsUpper(rune)

\* The loop of isExportedOrBuiltin: follow Elem while the kind is Ptr.
RECURSIVE Deref(_)
Deref(t) == IF TypeTable[t].kind = KindPtr THEN Deref(TypeTable[t].elem) ELSE t

\* isExportedOrBuiltin
isExportedOrBuiltin(t) ==
  LET u == Deref(t)
  IN  isExported(TypeTable[u].name) \/ TypeTable[u].pkgPath = ""

\* ------------------------------------------------- reflection: handlers

\* A handler value as Register sees it through reflect: whether
\* reflect.ValueOf gives a valid Value (false for a nil interface), and the
\* Kind, PkgPath, parameter and result types of its type.  fn identifies the
\* function value; visible says whether the function is publicly visible
\* (an exported identifier), which reflect does not report for a func value.
\* The state holds a handler by its key in HandlerTable.
hEcho ==       \* func Echo(*http.Request, *Args, *Reply) error
  [fn |-> "Echo", valid |-> TRUE, kind |-> KindFunc, pkgPath |-> "",
   ins |-> <<2, 4, 6>>, outs |-> <<11>>, visible |-> TRUE]
hBoom ==       \* func Boom(*http.Request, *int, *struct{...}) error
  [fn |-> "Boom", valid |-> TRUE, kind |-> KindFunc, pkgPath |-> "",
   ins |-> <<2, 10, 17>>, outs |-> <<11>>, visible |-> TRUE]
hPrivate ==    \* func echo(*http.Request, *Args, *Reply) error, not exported
  [fn |-> "echo", valid |-> TRUE, kind |-> KindFunc, pkgPath |-> "",
   ins |-> <<2, 4, 6>>, outs |-> <<11>>, visible |-> FALSE]
hNamed ==      \* app.Handler(Echo), type Handler func(*http.Request, *Args, *Reply) error
  [fn |-> "Echo", valid |-> TRUE, kind |-> KindFunc, pkgPath |-> "app",
   ins |-> <<2, 4, 6>>, outs |-> <<11>>, visible |-> TRUE]
hNil ==        \* nil
  [fn |-> "", valid |-> FALSE, kind |-> "Invalid", pkgPath |-> "",
   ins |-> << >>, outs |-> << >>, visible |-> FALSE]
hInt ==        \* 42
  [fn |-> "", valid |-> TRUE, kind |-> "Int", pkgPath |-> "",
   ins |-> << >>, outs |-> << >>, visible |-> FALSE]
hArity2 ==     \* func(*http.Request, *Args) error
  [fn |-> "Two", valid |-> TRUE, kind |-> KindFunc, pkgPath |-> "",
   ins |-> <<2, 4>>, outs |-> <<11>>, visible |-> TRUE]
hReqValue ==   \* func(http.Request, *Args, *Reply) error
  [fn |-> "ReqValue", valid |-> TRUE, kind |-> KindFunc, pkgPath |-> "",
   ins |-> <<1, 4, 6>>, outs |-> <<11>>, visible |-> TRUE]
hOtherReq ==   \* func(*app.Request, *Args, *Reply) error
  [fn |-> "OtherReq", valid |-> TRUE, kind |-> KindFunc, pkgPath |-> "",
   ins |-> <<14, 4, 6>>, outs |-> <<11>>, visible |-> TRUE]
hArgsValue ==  \* func(*http.Request, Args, *Reply) error
  [fn |-> "ArgsValue", valid |-> TRUE, kind |-> KindFunc, pkgPath |-> "",
   ins |-> <<2, 3, 6>>, outs |-> <<11>>, visible |-> TRUE]
hPrivArgs ==   \* func(*http.Request, *args, *Reply) error
  [fn |-> "PrivArgs", valid |-> TRUE, kind |-> KindFunc, pkgPath |-> "",
   ins |-> <<2, 8, 6>>, outs |-> <<11>>, visible |-> TRUE]
hPrivReply ==  \* func(*http.Request, *Args, **args) error
  [fn |-> "PrivReply", valid |-> TRUE, kind |-> KindFunc, pkgPath |-> "",
   ins |-> <<2, 4, 15>>, outs |-> <<11>>, visible |-> TRUE]
hNoOut ==      \* func(*http.Request, *Args, *Reply)
  [fn |-> "NoOut", valid |-> TRUE, kind |-> KindFunc, pkgPath |-> "",
   ins |-> <<2, 4, 6>>, outs |-> << >>, visible |-> TRUE]
hBadOut ==     \* func(*http.Request, *Args, *Reply) MyErr
  [fn |-> "BadOut", valid |-> TRUE, kind |-> KindFunc, pkgPath |-> "",
   ins |-> <<2, 4, 6>>, outs |-> <<12>>, visible |-> TRUE]

\* The handlers the Register calls of the concurrent specification pass.
HandlerTable ==
  [k \in {"Echo", "Boom", "echo", "Handler(Echo)", "nil", "42", "Two", "ReqValue",
          "OtherReq", "ArgsValue", "PrivArgs", "PrivReply", "NoOut", "BadOut"} |->
     CASE k = "Echo" -> hEcho
       [] k = "Boom" -> hBoom
       [] k = "echo" -> hPrivate
       [] k = "Handler(Echo)" -> hNamed
       [] k = "nil" -> hNil
       [] k = "42" -> hInt
       [] k = "Two" -> hArity2
       [] k = "ReqValue" -> hReqValue
       [] k = "OtherReq" -> hOtherReq
       [] k = "ArgsValue" -> hArgsValue
       [] k = "PrivArgs" -> hPrivArgs
       [] k = "PrivReply" -> hPrivReply
       [] k = "NoOut" -> hNoOut
       [] k = "BadOut" -> hBadOut]

\* All handlers, passed by the single-caller specification RegisterSpec.
AllHandlers == DOMAIN HandlerTable

\* The handlers the Register calls of the concurrent specification pass.
Handlers == {"Echo", "Boom", "Handler(Echo)", "Two"}

\* Error values of Register, and the two ways a call ends.
ErrHandlerNotExported == "method handler is not exported"
ErrHandlerSignature ==
  "method handler must has signature func(*http.Request, <*Args>, <*Reply>) error"
ErrAlreadyDefined == "rpc: method already defined"
NilErr == "nil"
Panicked == "panic"

\* Lines 39-82 of Register: the result of the validation, "ok" when the
\* handler reaches the map.  reflect panics when Type is called on the zero
\* Value and when NumIn is called on a type that is not a func type.
RegisterValidate(k) ==
  LET h == HandlerTable[k] IN
  IF ~h.valid THEN Panicked
  ELSE IF h.pkgPath # "" THEN ErrHandlerNotExported
  ELSE IF h.kind # KindFunc THEN Panicked
  ELSE IF Len(h.ins) # 3 THEN ErrHandlerSignature
  ELSE IF TypeTable[h.ins[1]].kind # KindPtr
          \/ TypeTable[h.ins[1]].elem # typeOfRequest THEN ErrHandlerSignature
  ELSE IF TypeTable[h.ins[2]].kind # KindPtr
          \/ ~isExportedOrBuiltin(h.ins[2]) THEN ErrHandlerSignature
  ELSE IF TypeTable[h.ins[3]].kind # KindPtr
          \/ ~isExportedOrBuiltin(h.ins[3]) THEN ErrHandlerSignature
  ELSE IF Len(h.outs) # 1 THEN ErrHandlerSignature
  ELSE IF h.outs[1] # typeOfError THEN ErrHandlerSignature
  ELSE "ok"

\* &methodSpec{method: vMethod, argsType: args.Elem(), replyType: reply.Elem()}
NewMethodSpec(k) ==
  LET h == HandlerTable[k] IN
  [method |-> k, argsType |-> TypeTable[h.ins[2]].elem,
   replyType |-> TypeTable[h.ins[3]].elem]

\* ------------------------------------------------------------------ state

VARIABLES
  mutex,       \* Server.Mutex: TRUE while locked
  methods,     \* Server.methods: [nil: whether the map is nil, m: name -> *methodSpec]
  th,          \* per goroutine: the call it is in, its position and its locals
  registered,  \* per name, the number of Register calls that have returned nil
  clients,     \* per Client: its Mutex, IDStore and Base fields
  stores,      \* the defaultIDStore values allocated so far: curr of each
  calls        \* per calling goroutine: the Call it is in, its position and locals

serverVars == <<mutex, methods, th, registered>>
clientVars == <<clients, stores, calls>>
vars == <<mutex, methods, th, registered, clients, stores, calls>>

\* http.StatusMethodNotAllowed, http.StatusBadRequest, http.StatusOK
StatusMethodNotAllowed == 405
StatusBadRequest == 400
StatusOK == 200

\* Request methods a peer may use.
HTTPMethods == {"POST", "GET"}

\* A pointer that is nil is the empty sequence, otherwise <<value>>.
NilPtr == << >>

\* m[k] for a Go map: the zero value (a nil pointer) when k is absent or the
\* map is nil.
MapGet(mp, k) == IF ~mp.nil /\ k \in DOMAIN mp.m THEN <<mp.m[k]>> ELSE NilPtr

\* m[k] = v
MapStore(mp, k, v) ==
  [nil |-> mp.nil,
   m |-> [n \in (DOMAIN mp.m) \cup {k} |-> IF n = k THEN v ELSE mp.m[n]]]

\* A goroutine outside any call.
Idle ==
  [pc |-> "idle", op |-> "", name |-> "", h |-> "nil", ret |-> "",
   spec |-> NilPtr, httpMethod |-> "", hdr |-> {}, out |-> << >>, trace |-> << >>]

\* A goroutine may start a call when it is in none.
Free(t) == th[t].pc = "idle"

\* A Server as its zero value, no goroutine in a call.
ServerInit ==
  /\ mutex = FALSE
  /\ methods = [nil |-> TRUE, m |-> << >>]
  /\ th = [t \in Threads |-> Idle]
  /\ registered = [n \in Names |-> 0]

\* Lock that does not wait for the mutex to be free.
LockNoWait == mutex' = TRUE

\* sync.Mutex.Lock: blocks while the mutex is locked.
Lock == ~mutex /\ mutex' = TRUE

\* sync.Mutex.Unlock
Unlock == mutex' = FALSE

\* The caller has taken the result of its call (Register's return at line
\* 97, ServeHTTP's at line 170) and is free to make another.
Forget(t) ==
  /\ th[t].pc = "done"
  /\ th' = [th EXCEPT ![t] = Idle]
  /\ UNCHANGED <<mutex, methods, registered>>
  /\ UNCHANGED clientVars

\* --------------------------------------------------------------- Register

\* Register, lines 38-82: the validation, which touches no shared state.
\* A rejected handler ends the call here; an accepted one goes on to Lock.
RegisterCall(t, HS) ==
  /\ Free(t)
  /\ \E name \in Names, h \in HS :
       LET v == RegisterValidate(h)
           call == [Idle EXCEPT !.op = "Register", !.name = name, !.h = h]
       IN  th' = [th EXCEPT ![t] =
                    IF v = "ok" THEN [call EXCEPT !.pc = "lock"]
                    ELSE [call EXCEPT !.pc = "done", !.ret = v]]
  /\ UNCHANGED <<mutex, methods, registered>>
  /\ UNCHANGED clientVars

\* Line 85: s.Lock()
RegisterLock(t) ==
  /\ th[t].pc = "lock"
  /\ Lock
  /\ th' = [th EXCEPT ![t].pc = "check"]
  /\ UNCHANGED <<methods, registered>>
  /\ UNCHANGED clientVars

\* Lines 87-91 without the duplicate check: the map is made when it is nil
\* and the call always goes on to store.
RegisterCheckNoDup(t) ==
  /\ th[t].pc = "check"
  /\ methods' = [nil |-> FALSE, m |-> methods.m]
  /\ th' = [th EXCEPT ![t].pc = "store"]
  /\ UNCHANGED <<mutex, registered>>
  /\ UNCHANGED clientVars

\* Lines 87-91 with the store moved before the duplicate check: a bound
\* name is overwritten and the error returned.
RegisterCheckOverwrite(t) ==
  /\ th[t].pc = "check"
  /\ IF methods.nil
       THEN /\ methods' = [nil |-> FALSE, m |-> << >>]
            /\ th' = [th EXCEPT ![t].pc = "store"]
       ELSE IF MapGet(methods, th[t].name) # NilPtr
         THEN /\ th' = [th EXCEPT ![t].pc = "unlock", ![t].ret = ErrAlreadyDefined]
              /\ methods' = MapStore(methods, th[t].name, NewMethodSpec(th[t].h))
         ELSE /\ th' = [th EXCEPT ![t].pc = "store"]
              /\ UNCHANGED methods
  /\ UNCHANGED <<mutex, registered>>
  /\ UNCHANGED clientVars

\* Lines 87-91: make the map when it is nil, else look the name up and
\* return the error when it is bound.
RegisterCheck(t) ==
  /\ th[t].pc = "check"
  /\ IF methods.nil
       THEN /\ methods' = [nil |-> FALSE, m |-> << >>]
            /\ th' = [th EXCEPT ![t].pc = "store"]
       ELSE IF MapGet(methods, th[t].name) # NilPtr
         THEN /\ th' = [th EXCEPT ![t].pc = "unlock", ![t].ret = ErrAlreadyDefined]
              /\ UNCHANGED methods
         ELSE /\ th' = [th EXCEPT ![t].pc = "store"]
              /\ UNCHANGED methods
  /\ UNCHANGED <<mutex, registered>>
  /\ UNCHANGED clientVars

\* Lines 92-97: s.methods[method] = &methodSpec{...}; err stays nil.
RegisterStore(t) ==
  /\ th[t].pc = "store"
  /\ methods' = MapStore(methods, th[t].name, NewMethodSpec(th[t].h))
  /\ th' = [th EXCEPT ![t].pc = "unlock", ![t].ret = NilErr]
  /\ UNCHANGED <<mutex, registered>>
  /\ UNCHANGED clientVars

\* Line 86, run at return: defer s.Unlock().
RegisterUnlock(t) ==
  /\ th[t].pc = "unlock"
  /\ Unlock
  /\ th' = [th EXCEPT ![t].pc = "done"]
  /\ registered' = IF th[t].ret = NilErr
                     THEN [registered EXCEPT ![th[t].name] = @ + 1]
                     ELSE registered
  /\ UNCHANGED methods
  /\ UNCHANGED clientVars

\* -------------------------------------------------------------- ServeHTTP

\* http.Header.Set: the value replaces any earlier value of the key.
HeaderSet(hdr, k, v) == {p \in hdr : p[1] # k} \cup {<<k, v>>}

\* WriteError, lines 188-192: Content-Type, WriteHeader(status), the message.
\* d is the dispatch's record; a write is recorded with the headers that
\* are set when it happens.
WriteError(d, status, msg) ==
  LET hdr == HeaderSet(d.hdr, "Content-Type", "text/plain; charset=utf-8")
  IN  [d EXCEPT !.hdr = hdr,
                !.out = Append(@, [fn |-> "WriteError", status |-> status,
                                   body |-> msg, hdr |-> hdr]),
                !.trace = Append(@, "WriteError")]

\* codecReq.WriteError(w, status, err): the call the dispatcher makes.
CodecWriteError(d, status, err) ==
  [d EXCEPT !.out = Append(@, [fn |-> "codec.WriteError", status |-> status,
                               body |-> err, hdr |-> d.hdr]),
            !.trace = Append(@, "codec.WriteError")]

\* codecReq.WriteResponse(w, reply): the call the dispatcher makes; status is
\* the dispatcher's statusCode at that point.
CodecWriteResponse(d, status) ==
  [d EXCEPT !.out = Append(@, [fn |-> "codec.WriteResponse", status |-> status,
                               body |-> "reply", hdr |-> d.hdr]),
            !.trace = Append(@, "codec.WriteResponse")]

\* The dispatch has returned: its locals are gone, the response stays.
Done(d) == [d EXCEPT !.pc = "done", !.spec = NilPtr, !.name = ""]

\* What codecReq.Method() may return: a method name, or an error.
MethodResults == Names \cup {"errMethod"}

\* A POST check that lets every request method through.
NotPostAny(hm) == FALSE

\* r.Method != "POST", line 112.
NotPost(hm) == hm # "POST"

\* ServeHTTP, lines 112-127: the POST check, NewCodec, NewRequest and
\* codecReq.Method(), none of which touches the Server.
ServeHTTP(t) ==
  /\ Free(t)
  /\ \E hm \in HTTPMethods :
       LET call == [Idle EXCEPT !.op = "ServeHTTP", !.httpMethod = hm]
           parsed == [call EXCEPT !.trace = Append(@, "codec.Method")]
       IN  IF NotPost(hm)
             THEN th' = [th EXCEPT ![t] =
                    Done(WriteError(call, StatusMethodNotAllowed,
                                    "rpc: POST method required"))]
             ELSE \E mr \in MethodResults :
                    th' = [th EXCEPT ![t] =
                      IF mr = "errMethod"
                        THEN Done(CodecWriteError(parsed, StatusBadRequest, mr))
                        ELSE [parsed EXCEPT !.pc = "getLock", !.name = mr]]
  /\ UNCHANGED <<mutex, methods, registered>>
  /\ UNCHANGED clientVars

\* get reading the table without taking the lock.
GetLockSkip(t) ==
  /\ th[t].pc = "getLock"
  /\ th' = [th EXCEPT ![t].pc = "getRead"]
  /\ UNCHANGED <<mutex, methods, registered>>
  /\ UNCHANGED clientVars

\* get, line 102: s.Lock()
GetLock(t) ==
  /\ th[t].pc = "getLock"
  /\ Lock
  /\ th' = [th EXCEPT ![t].pc = "getRead", ![t].trace = Append(@, "Lock")]
  /\ UNCHANGED <<methods, registered>>
  /\ UNCHANGED clientVars

\* get, line 103: methodSpec = s.methods[method]
GetRead(t) ==
  /\ th[t].pc = "getRead"
  /\ th' = [th EXCEPT ![t].pc = "getUnlock",
                      ![t].spec = MapGet(methods, th[t].name),
                      ![t].trace = Append(@, "lookup")]
  /\ UNCHANGED <<mutex, methods, registered>>
  /\ UNCHANGED clientVars

\* get and ServeHTTP going on to decode whatever the lookup returned.
GetUnlockNoCheck(t) ==
  /\ th[t].pc = "getUnlock"
  /\ Unlock
  /\ th' = [th EXCEPT ![t].pc = "read", ![t].trace = Append(@, "Unlock")]
  /\ UNCHANGED <<methods, registered>>
  /\ UNCHANGED clientVars

\* get returning to ServeHTTP with the lock still held.
GetUnlockKeepLock(t) ==
  /\ th[t].pc = "getUnlock"
  /\ LET d == [th[t] EXCEPT !.trace = Append(@, "Unlock")]
     IN  th' = [th EXCEPT ![t] =
           IF d.spec = NilPtr
             THEN Done(CodecWriteError(d, StatusBadRequest, "rpc: can't find method"))
             ELSE [d EXCEPT !.pc = "read"]]
  /\ UNCHANGED <<mutex, methods, registered>>
  /\ UNCHANGED clientVars

\* get, lines 104-108, and ServeHTTP, lines 130-133: s.Unlock(); a nil
\* methodSpec is the not-found error, written with status 400.
GetUnlock(t) ==
  /\ th[t].pc = "getUnlock"
  /\ Unlock
  /\ LET d == [th[t] EXCEPT !.trace = Append(@, "Unlock")]
     IN  th' = [th EXCEPT ![t] =
           IF d.spec = NilPtr
             THEN Done(CodecWriteError(d, StatusBadRequest, "rpc: can't find method"))
             ELSE [d EXCEPT !.pc = "read"]]
  /\ UNCHANGED <<methods, registered>>
  /\ UNCHANGED clientVars

\* ServeHTTP writing the decode error and then going on to the handler.
ServeReadRequestGoOn(t) ==
  /\ th[t].pc = "read"
  /\ \E errRead \in {NilErr, "errRead"} :
       LET d == [th[t] EXCEPT !.trace = Append(@, "codec.ReadRequest")]
           e == IF errRead # NilErr
                  THEN CodecWriteError(d, StatusBadRequest, errRead) ELSE d
       IN  th' = [th EXCEPT ![t] =
             [e EXCEPT !.pc = "running", !.trace = Append(@, "handler")]]
  /\ UNCHANGED <<mutex, methods, registered>>
  /\ UNCHANGED clientVars

\* ServeHTTP, lines 136-149: codecReq.ReadRequest into a new argsType value;
\* on success the handler is called with a new replyType value.
ServeReadRequest(t) ==
  /\ th[t].pc = "read"
  /\ \E errRead \in {NilErr, "errRead"} :
       LET d == [th[t] EXCEPT !.trace = Append(@, "codec.ReadRequest")]
       IN  th' = [th EXCEPT ![t] =
             IF errRead # NilErr
               THEN Done(CodecWriteError(d, StatusBadRequest, errRead))
               ELSE [d EXCEPT !.pc = "running", !.trace = Append(@, "handler")]]
  /\ UNCHANGED <<mutex, methods, registered>>
  /\ UNCHANGED clientVars

\* ServeHTTP writing the reply whatever the handler returned.
ServeRespondAlwaysReply(t) ==
  /\ th[t].pc = "running"
  /\ \E errInter \in {NilErr, "errResult"} :
       LET d == [th[t] EXCEPT !.ret = errInter,
                   !.hdr = HeaderSet(@, "x-content-type-options", "nosniff")]
       IN  th' = [th EXCEPT ![t] = Done(CodecWriteResponse(d, StatusOK))]
  /\ UNCHANGED <<mutex, methods, registered>>
  /\ UNCHANGED clientVars

\* ServeHTTP, lines 151-169, once the handler has returned errInter: the
\* status, the nosniff header, and the response or the error.
ServeRespond(t) ==
  /\ th[t].pc = "running"
  /\ \E errInter \in {NilErr, "errResult"} :
       LET statusCode == IF errInter # NilErr THEN StatusBadRequest ELSE StatusOK
           d == [th[t] EXCEPT !.ret = errInter,
                   !.hdr = HeaderSet(@, "x-content-type-options", "nosniff")]
       IN  th' = [th EXCEPT ![t] =
             IF errInter = NilErr
               THEN Done(CodecWriteResponse(d, statusCode))
               ELSE Done(CodecWriteError(d, statusCode, errInter))]
  /\ UNCHANGED <<mutex, methods, registered>>
  /\ UNCHANGED clientVars

\* ------------------------------------------------------------------ Client

\* Number of goroutines that call Client.Call.
NumCallers == 2

\* Calls on a default identifier store start while its counter is below this.
MaxId == 3

Callers == 1..NumCallers

\* The Client values of the process.
ClientIds == {"A", "B"}

\* The IDStore field: nil, a *defaultIDStore (ref: its index in stores), or
\* a store the application configured.
NilStore == [kind |-> "nil", ref |-> 0]
CustomStore == [kind |-> "custom", ref |-> 0]
DefaultStore(i) == [kind |-> "default", ref |-> i]

\* A Client as its zero value.
UnsetClient == [locked |-> FALSE, IDStore |-> NilStore, Base |-> "nil"]

\* A Client as the application may have set it up before the first Call.
ClientConfigs ==
  {[locked |-> FALSE, IDStore |-> s, Base |-> b] :
     s \in {NilStore, CustomStore}, b \in {"nil", "custom"}}

\* The ctx argument of Call: a live context, or one canceled before the call.
Contexts == {"live", "canceled"}

\* What the body of a response may hold: text that is not a JSON object of
\* the envelope's shape, or an envelope whose result and error members are
\* each absent, null or a value.
ResponseBodies ==
  {[valid |-> FALSE, result |-> "absent", error |-> "absent"]} \cup
  {[valid |-> TRUE, result |-> r, error |-> e] :
     r \in {"absent", "null", "value"}, e \in {"absent", "null", "object"}}

\* The status codes a response may carry.
ResponseStatuses == {StatusOK, StatusBadRequest}

\* resp before RoundTrip has returned one.
NoBody == [valid |-> FALSE, result |-> "none", error |-> "none"]

\* A goroutine outside any Call.  fails lists, in execution order, the
\* non-nil errors the steps of the call returned; trace lists the steps.
IdleCall ==
  [pc |-> "idle", client |-> "", ctx |-> "live", reqctx |-> "none",
   err |-> NilErr, sess |-> "none", store |-> NilStore, id |-> 0,
   resp |-> NoBody, status |-> 0, reply |-> "untouched", panic |-> FALSE,
   fails |-> << >>, trace |-> << >>]

ClientInit(CS) ==
  /\ clients \in [ClientIds -> CS]
  /\ stores = << >>
  /\ calls = [c \in Callers |-> IdleCall]

\* Call, lines 19-20: a Call starts and reaches client.Lock().
CallBegin(c) ==
  /\ calls[c].pc \in {"idle", "done"}
  /\ \A i \in 1..Len(stores) : stores[i] < MaxId
  /\ \E k \in ClientIds, ctx \in Contexts :
       calls' = [calls EXCEPT ![c] =
         [IdleCall EXCEPT !.pc = "lock", !.client = k, !.ctx = ctx]]
  /\ UNCHANGED <<clients, stores>>
  /\ UNCHANGED serverVars

\* Call entering the section without waiting for the lock.
CallLockNoWait(c) ==
  /\ calls[c].pc = "lock"
  /\ clients' = [clients EXCEPT ![calls[c].client].locked = TRUE]
  /\ calls' = [calls EXCEPT ![c].pc = "checkStore"]
  /\ UNCHANGED stores
  /\ UNCHANGED serverVars

\* Line 20: client.Lock()
CallLock(c) ==
  /\ calls[c].pc = "lock"
  /\ ~clients[calls[c].client].locked
  /\ clients' = [clients EXCEPT ![calls[c].client].locked = TRUE]
  /\ calls' = [calls EXCEPT ![c].pc = "checkStore"]
  /\ UNCHANGED stores
  /\ UNCHANGED serverVars

\* Line 21: if client.IDStore == nil
CallCheckStore(c) ==
  /\ calls[c].pc = "checkStore"
  /\ calls' = [calls EXCEPT ![c].pc =
                 IF clients[calls[c].client].IDStore = NilStore
                   THEN "setStore" ELSE "checkBase"]
  /\ UNCHANGED <<clients, stores>>
  /\ UNCHANGED serverVars

\* Line 22: client.IDStore = DefaultIDStore(), a new &defaultIDStore{}.
CallSetStore(c) ==
  /\ calls[c].pc = "setStore"
  /\ stores' = Append(stores, 0)
  /\ clients' = [clients EXCEPT ![calls[c].client].IDStore = DefaultStore(Len(stores) + 1)]
  /\ calls' = [calls EXCEPT ![c].pc = "checkBase"]
  /\ UNCHANGED serverVars

\* Line 24: if client.Base == nil
CallCheckBase(c) ==
  /\ calls[c].pc = "checkBase"
  /\ calls' = [calls EXCEPT ![c].pc =
                 IF clients[calls[c].client].Base = "nil" THEN "setBase" ELSE "unlock"]
  /\ UNCHANGED <<clients, stores>>
  /\ UNCHANGED serverVars

\* Line 25: client.Base = http.DefaultTransport
CallSetBase(c) ==
  /\ calls[c].pc = "setBase"
  /\ clients' = [clients EXCEPT ![calls[c].client].Base = "http.DefaultTransport"]
  /\ calls' = [calls EXCEPT ![c].pc = "unlock"]
  /\ UNCHANGED stores
  /\ UNCHANGED serverVars

\* Line 27: client.Unlock()
CallUnlock(c) ==
  /\ calls[c].pc = "unlock"
  /\ clients' = [clients EXCEPT ![calls[c].client].locked = FALSE]
  /\ calls' = [calls EXCEPT ![c].pc = "new"]
  /\ UNCHANGED stores
  /\ UNCHANGED serverVars

\* Lines 29-34: client.IDStore.New().  defaultIDStore.New (lines 129-133)
\* adds one to curr atomically and never fails; a configured store may
\* fail, and then Call returns at once.  A method call on a nil IDStore
\* panics.  On success the session's Close is deferred.
CallNew(c) ==
  /\ calls[c].pc = "new"
  /\ LET st == clients[calls[c].client].IDStore
         d == [calls[c] EXCEPT !.trace = Append(@, "IDStore.New")]
     IN  CASE st.kind = "default" ->
                /\ stores' = [stores EXCEPT ![st.ref] = @ + 1]
                /\ calls' = [calls EXCEPT ![c] =
                     [d EXCEPT !.pc = "build", !.sess = "default",
                               !.store = st, !.id = stores[st.ref] + 1]]
           [] st.kind = "custom" ->
                /\ UNCHANGED stores
                /\ \E errNew \in {NilErr, "errNew"} :
                     calls' = [calls EXCEPT ![c] =
                       IF errNew = NilErr
                         THEN [d EXCEPT !.pc = "build", !.sess = "custom",
                                        !.store = st]
                         ELSE [d EXCEPT !.pc = "done", !.err = errNew,
                                        !.fails = Append(@, errNew)]]
           [] st.kind = "nil" ->
                /\ UNCHANGED stores
                /\ calls' = [calls EXCEPT ![c] =
                     [calls[c] EXCEPT !.pc = "done", !.panic = TRUE]]
  /\ UNCHANGED clients
  /\ UNCHANGED serverVars

\* A failure before the response exists leaves only the session to close.
Fail(d, e) ==
  [d EXCEPT !.pc = "closeSession", !.err = e, !.fails = Append(@, e)]

\* The build step returning past the deferred Close when it fails.
CallBuildNoDefer(c) ==
  /\ calls[c].pc = "build"
  /\ \E r \in {"ok", "errEncode", "errNewRequest"} :
       LET enc == [calls[c] EXCEPT !.trace = Append(@, "EncodeCall")]
           req == [enc EXCEPT !.trace = Append(@, "http.NewRequest")]
       IN  calls' = [calls EXCEPT ![c] =
             CASE r = "errEncode" -> [enc EXCEPT !.pc = "done", !.err = r]
               [] r = "errNewRequest" -> [req EXCEPT !.pc = "done", !.err = r]
               [] r = "ok" -> [req EXCEPT !.pc = "roundtrip",
                                          !.reqctx = calls[c].ctx]]
  /\ UNCHANGED <<clients, stores>>
  /\ UNCHANGED serverVars

\* The build step leaving the request on its background context.
CallBuildNoContext(c) ==
  /\ calls[c].pc = "build"
  /\ \E r \in {"ok", "errEncode", "errNewRequest"} :
       LET enc == [calls[c] EXCEPT !.trace = Append(@, "EncodeCall")]
           req == [enc EXCEPT !.trace = Append(@, "http.NewRequest")]
       IN  calls' = [calls EXCEPT ![c] =
             CASE r = "errEncode" -> Fail(enc, r)
               [] r = "errNewRequest" -> Fail(req, r)
               [] r = "ok" -> [req EXCEPT !.pc = "roundtrip",
                                          !.reqctx = "live"]]
  /\ UNCHANGED <<clients, stores>>
  /\ UNCHANGED serverVars

\* Lines 36-46: EncodeCall, then http.NewRequest; either may fail.  Then
\* req.WithContext(ctx) binds the request to the caller's context.
CallBuild(c) ==
  /\ calls[c].pc = "build"
  /\ \E r \in {"ok", "errEncode", "errNewRequest"} :
       LET enc == [calls[c] EXCEPT !.trace = Append(@, "EncodeCall")]
           req == [enc EXCEPT !.trace = Append(@, "http.NewRequest")]
       IN  calls' = [calls EXCEPT ![c] =
             CASE r = "errEncode" -> Fail(enc, r)
               [] r = "errNewRequest" -> Fail(req, r)
               [] r = "ok" -> [req EXCEPT !.pc = "roundtrip",
                                          !.reqctx = calls[c].ctx]]
  /\ UNCHANGED <<clients, stores>>
  /\ UNCHANGED serverVars

\* What client.Base.RoundTrip may return for a request bound to reqctx: the
\* transport honors the request's context, so under a context that is
\* already canceled it returns the context's error and no response;
\* otherwise it fails or returns a response of any status and body.
TransportResults(reqctx) ==
  IF reqctx = "canceled"
    THEN {[err |-> "errCanceled", body |-> NoBody, status |-> 0]}
    ELSE {[err |-> "errRoundTrip", body |-> NoBody, status |-> 0]} \cup
         {[err |-> NilErr, body |-> b, status |-> st] :
            b \in ResponseBodies, st \in ResponseStatuses}

\* Lines 48-53: client.Base.RoundTrip(req) fails or returns a response, whose
\* body's Close is then deferred.
CallRoundTrip(c) ==
  /\ calls[c].pc = "roundtrip"
  /\ \E r \in TransportResults(calls[c].reqctx) :
       LET d == [calls[c] EXCEPT !.trace = Append(@, "RoundTrip")]
       IN  calls' = [calls EXCEPT ![c] =
             IF r.err # NilErr THEN Fail(d, r.err)
             ELSE [d EXCEPT !.pc = "decode", !.resp = r.body,
                            !.status = r.status]]
  /\ UNCHANGED <<clients, stores>>
  /\ UNCHANGED serverVars

\* json.NewDecoder(r).Decode(&response), line 100, into a clientResponse
\* (lines 76-92): text that is no envelope is an error; Result and Error are
\* pointers, so an absent member and a null member both leave them nil.
clientResponse(body) ==
  IF ~body.valid
    THEN [err |-> "errDecode", Result |-> "nil", Error |-> "nil"]
    ELSE [err |-> NilErr,
          Result |-> IF body.result = "value" THEN "raw" ELSE "nil",
          Error |-> IF body.error = "object" THEN "fault" ELSE "nil"]

\* DecodeReply, lines 98-110, on a body; unmarshalErr is what json.Unmarshal
\* of the result into reply returns.  With response.Result nil,
\* *response.Result (line 106) is a nil pointer dereference: a panic.
DecodeReply(body, unmarshalErr) ==
  LET response == clientResponse(body)
  IN  CASE response.err # NilErr ->
             [err |-> response.err, panic |-> FALSE, reply |-> "untouched"]
        [] response.err = NilErr /\ response.Error # "nil" ->
             [err |-> response.Error, panic |-> FALSE, reply |-> "untouched"]
        [] response.err = NilErr /\ response.Error = "nil"
             /\ response.Result = "nil" ->
             [err |-> NilErr, panic |-> TRUE, reply |-> "untouched"]
        [] OTHER ->
             [err |-> unmarshalErr, panic |-> FALSE,
              reply |-> IF unmarshalErr = NilErr THEN "set" ELSE "partly set"]

\* The errors of a call after a step that returned e.
Record(fails, e) == IF e = NilErr THEN fails ELSE Append(fails, e)

\* Call returning from DecodeReply with the body's Close not deferred.
CallDecodeNoBodyClose(c) ==
  /\ calls[c].pc = "decode"
  /\ \E unmarshalErr \in {NilErr, "errUnmarshal"} :
       LET r == DecodeReply(calls[c].resp, unmarshalErr)
       IN  calls' = [calls EXCEPT ![c] =
             [calls[c] EXCEPT !.pc = "closeSession", !.err = r.err,
                              !.panic = r.panic, !.reply = r.reply,
                              !.fails = Record(@, r.err),
                              !.trace = Append(@, "DecodeReply")]]
  /\ UNCHANGED <<clients, stores>>
  /\ UNCHANGED serverVars

\* Lines 54-57: err = DecodeReply(resp.Body, reply); every way out of it
\* runs the deferred calls.
CallDecode(c) ==
  /\ calls[c].pc = "decode"
  /\ \E unmarshalErr \in {NilErr, "errUnmarshal"} :
       LET r == DecodeReply(calls[c].resp, unmarshalErr)
       IN  calls' = [calls EXCEPT ![c] =
             [calls[c] EXCEPT !.pc = "closeBody", !.err = r.err,
                              !.panic = r.panic, !.reply = r.reply,
                              !.fails = Record(@, r.err),
                              !.trace = Append(@, "DecodeReply")]]
  /\ UNCHANGED <<clients, stores>>
  /\ UNCHANGED serverVars

\* checkClose keeping the error of the last Close that failed.
checkCloseLast(err, e) == IF e # NilErr THEN e ELSE err

\* checkClose, lines 147-151: e is what closer.Close() returned.
checkClose(err, e) == IF e # NilErr /\ err = NilErr THEN e ELSE err

\* Line 53, run on the way out: checkClose(&err, resp.Body)
CallCloseBody(c) ==
  /\ calls[c].pc = "closeBody"
  /\ \E e \in {NilErr, "errBodyClose"} :
       calls' = [calls EXCEPT ![c] =
         [calls[c] EXCEPT !.pc = "closeSession", !.err = checkClose(@, e),
                          !.fails = Record(@, e),
                          !.trace = Append(@, "Body.Close")]]
  /\ UNCHANGED <<clients, stores>>
  /\ UNCHANGED serverVars

\* What Close of the session may return: nil for a defaultIDSession (lines
\* 143-145), nil or an error for a configured store's session.
SessionCloseResults(sess) ==
  IF sess = "default" THEN {NilErr} ELSE {NilErr, "errSessionClose"}

\* Line 34, run on the way out: checkClose(&err, idSession); Call ends.
CallCloseSession(c) ==
  /\ calls[c].pc = "closeSession"
  /\ \E e \in SessionCloseResults(calls[c].sess) :
       calls' = [calls EXCEPT ![c] =
         [calls[c] EXCEPT !.pc = "done", !.err = checkClose(@, e),
                          !.fails = Record(@, e),
                          !.trace = Append(@, "Session.Close")]]
  /\ UNCHANGED <<clients, stores>>
  /\ UNCHANGED serverVars

\* ------------------------------------------------------------ specification

Init == ServerInit /\ ClientInit({UnsetClient})

Next ==
  \E t \in Threads :
    \/ RegisterCall(t, Handlers)
    \/ RegisterLock(t)
    \/ RegisterCheck(t)
    \/ RegisterStore(t)
    \/ RegisterUnlock(t)
    \/ ServeHTTP(t)
    \/ GetLock(t)
    \/ GetRead(t)
    \/ GetUnlock(t)
    \/ ServeReadRequest(t)
    \/ ServeRespond(t)
    \/ Forget(t)

Spec == Init /\ [][Next]_vars

\* Register called by one goroutine with every handler of HandlerTable.
RegisterNext ==
  \/ RegisterCall(1, AllHandlers)
  \/ RegisterLock(1)
  \/ RegisterCheck(1)
  \/ RegisterStore(1)
  \/ RegisterUnlock(1)
  \/ Forget(1)

RegisterSpec == Init /\ [][RegisterNext]_vars

\* ------------------------------------------------------------------ claims

\* The name is bound in the method table.
Bound(n) == MapGet(methods, n) # NilPtr

\* The goroutine takes a step.
Steps(t) == th'[t] # th[t]

\* A Register call of t ends in this step without reaching the lock.
RejectedNow(t) ==
  /\ Free(t) /\ Steps(t)
  /\ th'[t].op = "Register" /\ th'[t].pc = "done"

\* No binding of the method table is replaced or removed by the step.
BindingsKept == \A n \in Names : Bound(n) => MapGet(methods', n) = MapGet(methods, n)

\* A lookup of a bound name returns the bound descriptor.
LookupReturnsBinding(t) ==
  (th[t].pc = "getRead" /\ Steps(t) /\ Bound(th[t].name))
    => th'[t].spec = MapGet(methods, th[t].name)

\* A Register call that finds its name bound at the check returns the
\* 'already defined' error.
DuplicateRefused(t) ==
  (th[t].pc = "check" /\ Steps(t) /\ Bound(th[t].name))
    => (th'[t].pc = "unlock" /\ th'[t].ret = ErrAlreadyDefined)

\* C1 as stated: once a name is bound, every later Register with that name
\* returns the 'already defined' error (whatever its handler), and every
\* later lookup returns the descriptor of the first successful Register.
C1_Original ==
  [][/\ BindingsKept
     /\ \A t \in Threads :
          /\ LookupReturnsBinding(t)
          /\ DuplicateRefused(t)
          /\ (RejectedNow(t) /\ Bound(th'[t].name))
               => th'[t].ret = ErrAlreadyDefined]_vars

\* C1 as amended: once a name is bound, every later Register with that name
\* whose handler passes the validation returns the 'already defined' error,
\* no later Register with that name returns nil, and every later lookup
\* returns the descriptor of the first successful Register: the binding is
\* never replaced or removed.
C1_BindingIsPermanent ==
  [][/\ BindingsKept
     /\ \A t \in Threads :
          /\ LookupReturnsBinding(t)
          /\ DuplicateRefused(t)
          /\ (RejectedNow(t) /\ Bound(th'[t].name))
               => th'[t].ret # NilErr]_vars

\* C1's case: a Register of a bound name was refused as a duplicate while a
\* dispatch holds the descriptor it looked up under that name.
C1_Witness ==
  \E t, u \in Threads :
    /\ th[t].op = "Register" /\ th[t].pc = "done" /\ th[t].ret = ErrAlreadyDefined
    /\ th[u].op = "ServeHTTP" /\ th[u].pc = "read" /\ th[u].name = th[t].name
    /\ th[u].spec = MapGet(methods, th[t].name)

\* The handler passes the validation of Register.
Accepted(k) == RegisterValidate(k) = "ok"

\* The goroutine's Register call has returned.
Returned(t) == th[t].op = "Register" /\ th[t].pc = "done"

\* C2: under every interleaving of Register calls with valid handlers, at
\* most one call per name returns nil, each such call returns nil or the
\* 'already defined' error, and it returns the error only when another call
\* with that name has returned nil: a call is never refused for a name that
\* no call has bound, so calls with distinct names all succeed.
C2_OneSuccessPerName ==
  /\ \A n \in Names : registered[n] <= 1
  /\ \A t \in Threads :
       (Returned(t) /\ Accepted(th[t].h)) =>
         /\ th[t].ret \in {NilErr, ErrAlreadyDefined}
         /\ th[t].ret = ErrAlreadyDefined => registered[th[t].name] = 1

\* C2's case: two calls with the same name and valid handlers have returned,
\* one nil and one the error, and every name is bound.
C2_Witness ==
  /\ \A n \in Names : registered[n] = 1
  /\ \E t, u \in Threads :
       /\ Returned(t) /\ Returned(u) /\ th[t].name = th[u].name
       /\ th[t].ret = NilErr /\ th[u].ret = ErrAlreadyDefined

\* The errors Register returns.
RegisterErrors == {ErrHandlerNotExported, ErrHandlerSignature, ErrAlreadyDefined}

\* C3: every step in which a Register call fixes or returns a non-nil error
\* (the failed validation, the failed duplicate check, the return) leaves
\* the method table as it was, and the table changes only in a step of a
\* Register call that does not return an error.
C3_FailedRegisterKeepsTable ==
  [][/\ \A t \in Threads :
          (Steps(t) /\ th'[t].op = "Register" /\ th'[t].pc \in {"unlock", "done"}
             /\ th'[t].ret \in RegisterErrors)
            => methods' = methods
     /\ methods' # methods =>
          \E t \in Threads : /\ th[t].op = "Register" /\ Steps(t)
                             /\ th[t].pc \in {"check", "store"}
                             /\ th'[t].ret \notin RegisterErrors]_vars

\* C3's case: one Register has returned the duplicate error and one a
\* validation error, on a table that holds a binding.
C3_Witness ==
  \E t, u \in Threads :
    /\ Returned(t) /\ th[t].ret = ErrAlreadyDefined
    /\ Returned(u) /\ th[u].ret = ErrHandlerSignature
    /\ Bound(th[t].name)

\* The rule of the specification for the handler's signature: exactly
\* (*http.Request, pointer to an exported or built-in type, pointer to an
\* exported or built-in type) in, exactly one value of type error out.
SignatureRule(k) ==
  LET h == HandlerTable[k]
      IsPtr(i) == TypeTable[i].kind = KindPtr
  IN  /\ h.valid /\ h.kind = KindFunc
      /\ Len(h.ins) = 3 /\ Len(h.outs) = 1
      /\ IsPtr(h.ins[1]) /\ TypeTable[h.ins[1]].elem = typeOfRequest
      /\ IsPtr(h.ins[2]) /\ isExportedOrBuiltin(h.ins[2])
      /\ IsPtr(h.ins[3]) /\ isExportedOrBuiltin(h.ins[3])
      /\ h.outs[1] = typeOfError

\* C4: Register decides by the validation rules: a handler that is not
\* publicly visible gets the not-exported error, a visible handler that
\* breaks the signature rule gets the signature error, and only a handler
\* passing all rules reaches the duplicate check; every call returns.
C4_ValidationDecides ==
  \A t \in Threads :
    Returned(t) =>
      LET k == th[t].h
      IN  /\ ~HandlerTable[k].visible => th[t].ret = ErrHandlerNotExported
          /\ (HandlerTable[k].visible /\ ~SignatureRule(k))
               => th[t].ret = ErrHandlerSignature
          /\ (HandlerTable[k].visible /\ SignatureRule(k))
               => th[t].ret \in {NilErr, ErrAlreadyDefined}

\* The critical sections of Register and get.
RegisterSection == {"check", "store", "unlock"}
GetSection == {"getRead", "getUnlock"}

\* The descriptor has its three fields as Register builds them from an
\* accepted handler.
Complete(ms) == Accepted(ms.method) /\ ms = NewMethodSpec(ms.method)

\* C5: under every interleaving of Register and get, at most one goroutine
\* is between Lock and Unlock, so no lookup overlaps the check-then-insert
\* section of a registration, and what a lookup returns (and the table
\* holds) is nil or a descriptor with all three fields set.
C5_LookupSeesWholeDescriptors ==
  /\ Cardinality({t \in Threads : th[t].pc \in RegisterSection \cup GetSection}) <= 1
  /\ \A t \in Threads : th[t].spec # NilPtr => Complete(th[t].spec[1])
  /\ \A n \in Names : Bound(n) => Complete(MapGet(methods, n)[1])

\* C5's case: a lookup has read a descriptor and still holds the lock while
\* a registration waits for it.
C5_Witness ==
  \E t, u \in Threads :
    /\ th[t].pc = "getUnlock" /\ th[t].spec # NilPtr
    /\ th[u].pc = "lock"

\* The goroutine's dispatch has returned.
Served(t) == th[t].op = "ServeHTTP" /\ th[t].pc = "done"

\* C6: a dispatch whose request method is not POST has written status 405
\* with a plain-text body and has returned, and it has neither taken the
\* lock, nor looked a method up, nor called the codec or a handler.
C6_NotPostIs405 ==
  \A t \in Threads :
    (th[t].op = "ServeHTTP" /\ th[t].httpMethod # "POST") =>
      /\ th[t].pc = "done"
      /\ Len(th[t].out) = 1
      /\ th[t].out[1].fn = "WriteError"
      /\ th[t].out[1].status = StatusMethodNotAllowed
      /\ <<"Content-Type", "text/plain; charset=utf-8">> \in th[t].out[1].hdr
      /\ th[t].trace = <<"WriteError">>

\* C6's case: a GET request has been answered.
C6_Witness == \E t \in Threads : Served(t) /\ th[t].httpMethod = "GET"

\* e occurs in the sequence s.
Has(s, e) == \E i \in 1..Len(s) : s[i] = e

\* C7: a POST dispatch whose method name is not bound when get reads the
\* table gets nil, and then writes the method-not-found error with status
\* 400 through the codec and returns, without decoding arguments and
\* without calling a handler.
C7_UnboundIs400 ==
  [][\A t \in Threads :
       /\ (th[t].pc = "getRead" /\ Steps(t) /\ ~Bound(th[t].name))
            => th'[t].spec = NilPtr
       /\ (th[t].pc = "getUnlock" /\ Steps(t) /\ th[t].spec = NilPtr)
            => /\ th'[t].pc = "done"
               /\ Len(th'[t].out) = 1
               /\ th'[t].out[1].fn = "codec.WriteError"
               /\ th'[t].out[1].status = StatusBadRequest
               /\ th'[t].out[1].body = "rpc: can't find method"
               /\ ~Has(th'[t].trace, "codec.ReadRequest")
               /\ ~Has(th'[t].trace, "handler")]_vars

\* C7's case: a dispatch has answered that the method was not found.
C7_Witness ==
  \E t \in Threads :
    /\ Served(t) /\ Len(th[t].out) = 1
    /\ th[t].out[1].body = "rpc: can't find method"

\* C8: a dispatch whose handler returned has written exactly one response:
\* the handler's error through the codec's WriteError with status 400 when
\* the error is not nil, the reply through WriteResponse with status 200
\* when it is nil.
C8_ErrorOrResult ==
  \A t \in Threads :
    (Served(t) /\ Has(th[t].trace, "handler")) =>
      /\ Len(th[t].out) = 1
      /\ th[t].ret # NilErr =>
           /\ th[t].out[1].fn = "codec.WriteError"
           /\ th[t].out[1].status = StatusBadRequest
           /\ th[t].out[1].body = th[t].ret
      /\ th[t].ret = NilErr =>
           /\ th[t].out[1].fn = "codec.WriteResponse"
           /\ th[t].out[1].status = StatusOK
           /\ th[t].out[1].body = "reply"

\* C8's case: one dispatch has answered a handler's error and one a
\* handler's reply.
C8_Witness ==
  \E t, u \in Threads :
    /\ Served(t) /\ Has(th[t].trace, "handler") /\ th[t].ret = "errResult"
    /\ Served(u) /\ Has(th[u].trace, "handler") /\ th[u].ret = NilErr

\* C9: on every exit path of ServeHTTP the x-content-type-options: nosniff
\* header has been set by the dispatcher before the response is written.
C9_NosniffOnEveryPath ==
  \A t \in Threads :
    Served(t) =>
      /\ Len(th[t].out) >= 1
      /\ \A i \in 1..Len(th[t].out) :
           <<"x-content-type-options", "nosniff">> \in th[t].out[i].hdr

\* ------------------------------------------------------------ Client claims

\* One goroutine making Calls one after another, on Clients set up in every
\* way, with every failure of the collaborators.
CallInit == ServerInit /\ ClientInit(ClientConfigs)

CallNext ==
  \/ CallBegin(1)
  \/ CallLock(1)
  \/ CallCheckStore(1)
  \/ CallSetStore(1)
  \/ CallCheckBase(1)
  \/ CallSetBase(1)
  \/ CallUnlock(1)
  \/ CallNew(1)
  \/ CallBuild(1)
  \/ CallRoundTrip(1)
  \/ CallDecode(1)
  \/ CallCloseBody(1)
  \/ CallCloseSession(1)

CallSpec == CallInit /\ [][CallNext]_vars

\* The number of occurrences of e in the sequence s.
Count(s, e) == Cardinality({i \in 1..Len(s) : s[i] = e})

\* C10: when IDStore.New succeeded, the session's Close has been executed
\* exactly once when Call ends, on every exit path (and never more than once
\* before); when IDStore.New failed, Call has returned that error having
\* done nothing else: no transport request, no Close.
C10_SessionClosedOnce ==
  \A c \in Callers :
    /\ Count(calls[c].trace, "Session.Close") <= 1
    /\ (calls[c].pc = "done" /\ calls[c].sess # "none")
         => Count(calls[c].trace, "Session.Close") = 1
    /\ (calls[c].pc = "done" /\ calls[c].sess = "none" /\ ~calls[c].panic)
         => /\ calls[c].err = "errNew"
            /\ calls[c].trace = <<"IDStore.New">>

\* C10's case: Calls have ended on a failed IDStore.New, and on a transport
\* failure with the session closed.
C10_Witness ==
  \E c \in Callers :
    /\ calls[c].pc = "done" /\ calls[c].err = "errRoundTrip"
    /\ calls[c].sess # "none"
    /\ calls[c].trace[Len(calls[c].trace)] = "Session.Close"

\* The step named e has been taken by the call.
Took(c, e) == Count(calls[c].trace, e) > 0

\* Call has returned to its caller.
Returns(c) == calls[c].pc = "done" /\ ~calls[c].panic

\* C11: Call returns the first failure in execution order: the error of a
\* failed step of the body (new session, encode, request build, transport,
\* decode, wire fault) whatever the two releases returned; a release's error
\* only when no step before it failed; the body release's error when both
\* releases failed alone; and nil when nothing failed.
C11_FirstFailureReturned ==
  \A c \in Callers :
    Returns(c) =>
      calls[c].err = IF calls[c].fails = << >> THEN NilErr
                     ELSE calls[c].fails[1]

\* C11's case: a Call with a wire fault whose two releases both failed has
\* returned the fault.
C11_Witness ==
  \E c \in Callers :
    /\ Returns(c)
    /\ calls[c].fails = <<"fault", "errBodyClose", "errSessionClose">>
    /\ calls[c].err = "fault"

\* C12: when RoundTrip returned a response, the body's Close has been
\* executed exactly once when Call ends, as the step just before the
\* session's Close, whatever DecodeReply did; it is never executed twice,
\* and never without a response.
C12_BodyClosedOnceBeforeSession ==
  \A c \in Callers :
    LET tr == calls[c].trace
    IN  /\ Count(tr, "Body.Close") <= 1
        /\ calls[c].resp = NoBody => Count(tr, "Body.Close") = 0
        /\ (calls[c].pc = "done" /\ calls[c].resp # NoBody)
             => /\ Count(tr, "Body.Close") = 1
                /\ tr[Len(tr) - 1] = "Body.Close"
                /\ tr[Len(tr)] = "Session.Close"

\* C12's case: a Call whose response carried a wire fault has ended with the
\* body closed and then the session closed.
C12_Witness ==
  \E c \in Callers :
    /\ Returns(c) /\ calls[c].err = "fault"
    /\ calls[c].resp.error = "object"
    /\ Count(calls[c].trace, "Body.Close") = 1
    /\ calls[c].trace[Len(calls[c].trace)] = "Session.Close"

\* C13: once DecodeReply has run on an envelope: if the error member is
\* there (not null), the call's error is that Fault and reply is untouched,
\* whatever the status and whether or not a result is there too; if it is
\* not, the result has been deserialized into reply.
C13_FaultElseResult ==
  \A c \in Callers :
    (Took(c, "DecodeReply") /\ calls[c].resp.valid) =>
      IF calls[c].resp.error = "object"
        THEN /\ calls[c].fails[1] = "fault"
             /\ calls[c].reply = "untouched"
             /\ ~calls[c].panic
        ELSE /\ calls[c].reply # "untouched"
             /\ ~calls[c].panic

\* C14: no Call ends abnormally, whatever body the transport delivers.
C14_CallNeverPanics ==
  \A c \in Callers : ~calls[c].panic

\* A Call that was given an already-canceled context has ended.
CanceledCallEnded(c) == calls[c].pc = "done" /\ calls[c].ctx = "canceled"

\* C17 as stated: every Call invoked with an already-canceled context
\* returns a cancellation failure, the session it acquired released.
C17_Original ==
  \A c \in Callers :
    CanceledCallEnded(c) =>
      /\ calls[c].err = "errCanceled"
      /\ calls[c].sess # "none" => Count(calls[c].trace, "Session.Close") = 1

\* C17: a Call invoked with an already-canceled context never obtains a
\* response.  When IDStore.New, EncodeCall and http.NewRequest succeed, it
\* calls the transport once, which returns the cancellation failure, and
\* Call returns that failure after closing the session; when one of the
\* three fails, Call returns that step's error and never calls the
\* transport.  A session that was acquired is closed exactly once.
C17_CanceledCallFails ==
  \A c \in Callers :
    calls[c].ctx = "canceled" =>
      /\ calls[c].resp = NoBody
      /\ ~Took(c, "DecodeReply")
      /\ Count(calls[c].trace, "RoundTrip") <= 1
      /\ CanceledCallEnded(c) =>
           /\ ~calls[c].panic
           /\ IF Took(c, "RoundTrip")
                THEN /\ calls[c].err = "errCanceled"
                     /\ calls[c].trace =
                          <<"IDStore.New", "EncodeCall", "http.NewRequest",
                            "RoundTrip", "Session.Close">>
                ELSE calls[c].err \in {"errNew", "errEncode", "errNewRequest"}
           /\ calls[c].sess # "none"
                => Count(calls[c].trace, "Session.Close") = 1

\* C17's case: a Call under a canceled context has returned the
\* cancellation failure, its session closed as the last step.
C17_Witness ==
  \E c \in Callers :
    /\ CanceledCallEnded(c)
    /\ calls[c].err = "errCanceled"
    /\ calls[c].fails = <<"errCanceled", "errSessionClose">>
    /\ calls[c].trace[Len(calls[c].trace)] = "Session.Close"

\* ------------------------------------------------- Default identifier store

\* Goroutines calling New() on one defaultIDStore, and Close() on the
\* sessions they got.  A goroutine outside New: got lists the ids of the
\* sessions New returned to it; after is the largest id any New had returned
\* when its own New started.
IdleNew ==
  [pc |-> "idle", id |-> 0, after |-> 0, got |-> << >>, ret |-> NilErr]

\* The ids New has returned to the goroutine c.
Got(c) == {calls[c].got[i] : i \in 1..Len(calls[c].got)}

\* The ids New has returned so far.
Returned_ids == UNION {Got(c) : c \in Callers}

\* The largest element of a set of ids, 0 when there is none.
MaxOf(S) == IF S = {} THEN 0 ELSE CHOOSE x \in S : \A y \in S : y <= x

StoreInit ==
  /\ ServerInit
  /\ clients = [k \in ClientIds |-> UnsetClient]
  /\ stores = <<0>>
  /\ calls = [c \in Callers |-> IdleNew]

\* Line 129: a goroutine calls store.New().
NewBegin(c) ==
  /\ calls[c].pc \in {"idle", "held", "closed"}
  /\ stores[1] < MaxId
  /\ calls' = [calls EXCEPT ![c] =
       [@ EXCEPT !.pc = "add", !.id = 0, !.after = MaxOf(Returned_ids)]]
  /\ UNCHANGED <<clients, stores>>
  /\ UNCHANGED serverVars

\* New returning curr + 1 while its write of curr is lost.
NewAddLostUpdate(c) ==
  /\ calls[c].pc = "add"
  /\ calls' = [calls EXCEPT ![c] =
       [@ EXCEPT !.pc = "session", !.id = stores[1] + 1]]
  /\ UNCHANGED <<clients, stores>>
  /\ UNCHANGED serverVars

\* Line 130: id := atomic.AddUint64(&store.curr, 1), one indivisible step.
NewAdd(c) ==
  /\ calls[c].pc = "add"
  /\ stores' = [stores EXCEPT ![1] = @ + 1]
  /\ calls' = [calls EXCEPT ![c] =
       [@ EXCEPT !.pc = "session", !.id = stores[1] + 1]]
  /\ UNCHANGED clients
  /\ UNCHANGED serverVars

\* Lines 131-132: session = &defaultIDSession{id}; return.
NewReturn(c) ==
  /\ calls[c].pc = "session"
  /\ calls' = [calls EXCEPT ![c] =
       [@ EXCEPT !.pc = "held", !.got = Append(@, calls[c].id)]]
  /\ UNCHANGED <<clients, stores>>
  /\ UNCHANGED serverVars

\* Lines 143-145: defaultIDSession.Close on the session New returned last.
SessionClose(c) ==
  /\ calls[c].pc = "held"
  /\ calls' = [calls EXCEPT ![c] = [@ EXCEPT !.pc = "closed", !.ret = NilErr]]
  /\ UNCHANGED <<clients, stores>>
  /\ UNCHANGED serverVars

StoreNext ==
  \E c \in Callers :
    \/ NewBegin(c)
    \/ NewAdd(c)
    \/ NewReturn(c)
    \/ SessionClose(c)

StoreSpec == StoreInit /\ [][StoreNext]_vars

\* The number of sessions New has returned so far.
RECURSIVE NumReturned(_)
NumReturned(S) ==
  IF S = {} THEN 0
  ELSE LET c == CHOOSE x \in S : TRUE
       IN  Len(calls[c].got) + NumReturned(S \ {c})

\* The ids of the New calls that have added but not yet returned.
InFlight == {calls[c].id : c \in {x \in Callers : calls[x].pc = "session"}}

\* C15 (state part): the sessions New has returned carry pairwise distinct
\* ids; when no New is between its add and its return, the N sessions
\* returned carry exactly the ids 1..N (and at any time the returned and the
\* in-flight ids together are 1..curr); the id of a New is larger than every
\* id returned before that New started.
IdsDistinctDenseOrdered ==
  /\ Cardinality(Returned_ids) = NumReturned(Callers)
  /\ Returned_ids \cup InFlight = 1..stores[1]
  /\ InFlight = {} => Returned_ids = 1..NumReturned(Callers)
  /\ \A c \in Callers :
       calls[c].pc \in {"session", "held"} => calls[c].id > calls[c].after

\* C15 (Close part): a step that closes a default session returns nil and
\* leaves the store and every session as they were.
CloseChangesNothing ==
  \A c \in Callers :
    (calls[c].pc = "held" /\ calls'[c].pc = "closed") =>
      /\ calls'[c].ret = NilErr
      /\ stores' = stores
      /\ \A d \in Callers : calls'[d].got = calls[d].got /\ calls'[d].id = calls[d].id

\* C15: concurrent New() calls on one default store return pairwise distinct
\* ids, exactly 1..N for N calls, larger for a New that starts after another
\* has returned; Close on a default session returns nil and changes no state.
C15_DefaultStoreIds == []IdsDistinctDenseOrdered /\ [][CloseChangesNothing]_vars

\* C15's case: two goroutines hold sessions of New calls that overlapped,
\* and a session has been closed.
C15_Witness ==
  \E c, d \in Callers :
    /\ c # d
    /\ calls[c].pc = "closed" /\ calls[d].pc = "held"
    /\ calls[c].after = 0 /\ calls[d].after = 0
    /\ calls[c].id # 0 /\ calls[d].id # 0
    /\ Returned_ids = 1..2

\* ---------------------------------------------------------- Concurrent Calls

\* The collaborators of the concurrent Calls: contexts stay live, payloads
\* encode, a configured store may fail, and the transport is unreachable.
Unreachable ==
  \A c \in Callers :
    /\ calls[c].ctx = "live"
    /\ calls[c].resp = NoBody
    /\ \A i \in 1..Len(calls[c].fails) :
         calls[c].fails[i] \in {"errNew", "errRoundTrip"}

\* NumCallers goroutines, each calling Call once, concurrently, on Clients
\* set up in every way, with the collaborators above.
ConcNext ==
  \E c \in Callers :
    \/ calls[c].pc = "idle" /\ CallBegin(c) /\ Unreachable'
    \/ CallLock(c)
    \/ CallCheckStore(c)
    \/ CallSetStore(c)
    \/ CallCheckBase(c)
    \/ CallSetBase(c)
    \/ CallUnlock(c)
    \/ CallNew(c) /\ Unreachable'
    \/ CallBuild(c) /\ Unreachable'
    \/ CallRoundTrip(c) /\ Unreachable'
    \/ CallCloseSession(c) /\ Unreachable'

ConcSpec == CallInit /\ [][ConcNext]_vars

\* C16: any two Calls that rely on the default store are tagged with
\* different ids, on the same Client or on different Clients.
C16_IdsProcessWideUnique ==
  \A c, d \in Callers :
    (c # d /\ calls[c].sess = "default" /\ calls[d].sess = "default")
      => calls[c].id # calls[d].id

\* The Clients whose IDStore is a default store.
Defaulted == {k \in ClientIds : clients[k].IDStore.kind = "default"}

\* C18 (state part): every default store that was created is the IDStore of
\* a Client, one per Client; and every call that got a session got it from
\* the store its Client holds.
OneStorePerClient ==
  /\ Len(stores) = Cardinality(Defaulted)
  /\ \A k, l \in Defaulted :
       clients[k].IDStore = clients[l].IDStore => k = l
  /\ \A c \in Callers :
       calls[c].sess # "none"
         => calls[c].store = clients[calls[c].client].IDStore

\* C18 (step part): a step changes the IDStore of a Client only from nil to
\* a new default store and its Base only from nil to the default transport;
\* it never changes a field that is set, configured or defaulted.
AssignedOnlyWhenNil ==
  \A k \in ClientIds :
    /\ clients'[k].IDStore # clients[k].IDStore
         => /\ clients[k].IDStore = NilStore
            /\ clients'[k].IDStore = DefaultStore(Len(stores) + 1)
    /\ clients'[k].Base # clients[k].Base
         => /\ clients[k].Base = "nil"
            /\ clients'[k].Base = "http.DefaultTransport"

\* C18: for every interleaving of concurrent Calls, a Client's default store
\* and default transport are each assigned once, when the field is nil;
\* every call takes its session from that one store; a configured store or
\* transport is never overwritten.
C18_LazyInitOnce == []OneStorePerClient /\ [][AssignedOnlyWhenNil]_vars

\* C18's case: two concurrent calls on one Client that had nothing
\* configured both hold sessions of the same default store, while another
\* Client still holds the store and transport configured for it.
C18_Witness ==
  \E c, d \in Callers, k, l \in ClientIds :
    /\ c # d /\ k # l
    /\ calls[c].client = k /\ calls[d].client = k
    /\ calls[c].pc = "build" /\ calls[d].pc = "build"
    /\ calls[c].store = DefaultStore(1) /\ calls[d].store = DefaultStore(1)
    /\ calls[c].id = 1 /\ calls[d].id = 2
    /\ clients[k].Base = "http.DefaultTransport"
    /\ clients[l].IDStore = CustomStore /\ clients[l].Base = "custom"

\* ---------------------------------------------------------- Dispatch claims

\* The calls of a dispatch that reaches the handler, in order.
ToHandler ==
  <<"codec.Method", "Lock", "lookup", "Unlock", "codec.ReadRequest", "handler">>

\* The sequence s is the start of the sequence u.
IsPrefix(s, u) == Len(s) <= Len(u) /\ s = SubSeq(u, 1, Len(s))

\* The calls of a dispatch that has returned, one sequence per exit.
DispatchTraces ==
  { <<"WriteError">>,
    <<"codec.Method", "codec.WriteError">>,
    SubSeq(ToHandler, 1, 4) \o <<"codec.WriteError">>,
    SubSeq(ToHandler, 1, 5) \o <<"codec.WriteError">>,
    ToHandler \o <<"codec.WriteError">>,
    ToHandler \o <<"codec.WriteResponse">> }

\* C19: a dispatch goes through POST check, method parse, lookup, argument
\* decode, handler, response in that order.  Until it returns it has
\* written nothing, so the handler is entered only when the steps before it
\* succeeded, and at most once; a parse failure and a decode failure are
\* answered with status 400 through the codec and end the dispatch; when it
\* has returned it has written exactly one response: the plain-text 405, a
\* codec error, or the codec result.
C19_DispatchOrder ==
  \A t \in Threads :
    th[t].op = "ServeHTTP" =>
      LET tr == th[t].trace
          out == th[t].out
      IN  /\ Count(tr, "handler") <= 1
          /\ th[t].pc # "done" =>
               /\ out = << >>
               /\ IsPrefix(tr, ToHandler)
               /\ th[t].httpMethod = "POST"
               /\ th[t].name \in Names
          /\ th[t].pc = "running" =>
               /\ tr = ToHandler
               /\ th[t].spec # NilPtr
          /\ th[t].pc = "done" =>
               /\ Len(out) = 1
               /\ tr \in DispatchTraces
               /\ Has(tr, "handler") => IsPrefix(ToHandler, tr)
               /\ out[1].fn = tr[Len(tr)]
               /\ (th[t].httpMethod # "POST") <=> (tr = <<"WriteError">>)
               /\ out[1].fn = "WriteError" => out[1].status = StatusMethodNotAllowed
               /\ out[1].body = "errMethod" =>
                    /\ tr = <<"codec.Method", "codec.WriteError">>
                    /\ out[1].status = StatusBadRequest
               /\ out[1].body = "errRead" =>
                    /\ tr = SubSeq(ToHandler, 1, 5) \o <<"codec.WriteError">>
                    /\ out[1].status = StatusBadRequest
               /\ out[1].fn = "codec.WriteResponse" =>
                    tr = ToHandler \o <<"codec.WriteResponse">>

\* C19's case: a dispatch whose arguments did not decode has returned after
\* writing the 400 error through the codec, the handler not invoked.
C19_Witness ==
  \E t \in Threads :
    /\ Served(t)
    /\ th[t].trace = SubSeq(ToHandler, 1, 5) \o <<"codec.WriteError">>
    /\ th[t].out[1].body = "errRead"
    /\ th[t].out[1].status = StatusBadRequest

\* The goroutines between a Lock and its Unlock.
Holders == {t \in Threads : th[t].pc \in RegisterSection \cup GetSection}

\* The goroutine's next step inside its critical section can be taken.
CanGoOn(t) ==
  ENABLED (\/ RegisterCheck(t) \/ RegisterStore(t) \/ RegisterUnlock(t)
           \/ GetRead(t) \/ GetUnlock(t))

\* C20 (state part): the lock is held exactly while one goroutine is in the
\* critical section of Register or of get, so never by a dispatch that is
\* decoding, running its handler or writing; the holder can always go on to
\* its Unlock, and with the lock free every waiting goroutine can take it,
\* however many handlers are running and whether or not they return.
LockOnlyForLookup ==
  /\ mutex <=> Holders # {}
  /\ Cardinality(Holders) <= 1
  /\ \A t \in Holders : CanGoOn(t)
  /\ \A t \in Threads :
       /\ (th[t].pc = "lock" /\ ~mutex) => ENABLED RegisterLock(t)
       /\ (th[t].pc = "getLock" /\ ~mutex) => ENABLED GetLock(t)

\* C20 (step part): a step of a dispatch leaves the registry as it is.
DispatchKeepsRegistry ==
  \A t \in Threads :
    (th[t].op = "ServeHTTP" /\ th'[t] # th[t]) => methods' = methods

\* C20: a dispatch holds the lock only during the lookup and never changes
\* the registry; while handlers are running, Register and other lookups can
\* take the lock and complete.
C20_LockOnlyForLookup == []LockOnlyForLookup /\ [][DispatchKeepsRegistry]_vars

\* C20's case: while one goroutine runs a handler, another holds the lock in
\* a Register that has stored its descriptor.
C20_Witness ==
  \E t, u \in Threads :
    /\ th[t].pc = "running"
    /\ th[u].op = "Register" /\ th[u].pc = "unlock" /\ th[u].ret = NilErr
    /\ mutex

====
